---------------------------- MODULE Spec2Model ----------------------------
(***************************************************************************)
(* Gamma spectrum classification (app/models.py, app/spectrum.py,          *)
(* app/ml_models.py, app/st-app.py).                                       *)
(*                                                                         *)
(* Values.  A Python call either returns a value or raises; a call result  *)
(* is [ok |-> TRUE, val |-> v] or [ok |-> FALSE, exc |-> "ValueError"].    *)
(* A float64 is modelled exactly: a finite value is [n |-> num, d |-> den] *)
(* with den > 0, tagged k = "fin"; the non-finite values are tagged "nan", *)
(* "inf", "-inf" (numpy returns them with a RuntimeWarning, never raising).*)
(* Calibration coefficients, energies and counts are drawn from integers.  *)
(***************************************************************************)
EXTENDS Integers, Sequences, FiniteSets, TLC

VARIABLES
    sp,          \* the Spectrum the application holds (NoSpectrum before a load)
    origin,      \* which constructor built sp
    isotopes,    \* IsotopesClassificationModel._isotopes
    labels,      \* IsotopesClassificationModel._labels_encoder.classes_
    classifier,  \* IsotopesClassificationModel._classifier (opaque handle)
    pc,          \* position of the predict call in progress
    features,    \* predict's local `features`
    preds,       \* predict's local `preds`
    outcome,     \* how the predict call ended: a returned string or a raised exception
    trace,       \* what the predict call has invoked so far, in order
    call         \* the last direct call of a SpectrumPreprocessing function

vars == <<sp, origin, isotopes, labels, classifier, pc, features, preds, outcome, trace, call>>

----------------------------------------------------------------------------
(* Bounds of the model. *)

\* counts arrays have 0, window_size - 1, or window_size .. window_size + ExtraLen channels
ExtraLen == 1
\* height of the peak in a counts array
MaxCount == 2
\* entries in the isotope reference table
MaxIsotopes == 2

(* Program constants. *)

\* ml_models.py: MIN_SPECTRUM_DURATION_SEC = 30
MIN_SPECTRUM_DURATION_SEC == 30
\* spectrum.py _smooth_data: window_size = 20
window_size == 20
\* spectrum.py create_empty: counts = [0]*1024
EmptyChannels == 1024

----------------------------------------------------------------------------
(* Python results and floats. *)

Ret(v) == [ok |-> TRUE, val |-> v]
Raise(e) == [ok |-> FALSE, exc |-> e]

NaN == [k |-> "nan"]
Inf == [k |-> "inf"]
NegInf == [k |-> "-inf"]
IsFinite(x) == x.k = "fin"
Rat(num, den) == [k |-> "fin", n |-> num, d |-> den]

Abs(x) == IF x < 0 THEN -x ELSE x
Sign(x) == IF x > 0 THEN 1 ELSE IF x < 0 THEN -1 ELSE 0

\* floor of the real square root of x >= 0
RECURSIVE IsqrtFrom(_, _)
IsqrtFrom(x, r) == IF (r + 1) * (r + 1) > x THEN r ELSE IsqrtFrom(x, r + 1)
Isqrt(x) == IsqrtFrom(x, 0)

\* np.sqrt of a Python number: nan for a negative argument (RuntimeWarning only),
\* otherwise the root, kept as its floor and whether it is exact.
NpSqrt(x) ==
    IF x < 0 THEN NaN
    ELSE [k |-> "fin", fl |-> Isqrt(x), exact |-> Isqrt(x) * Isqrt(x) = x]

----------------------------------------------------------------------------
(* models.py *)

\* datetime.timedelta(seconds=s)
Timedelta(s) == [td |-> TRUE, sec |-> s]
\* a bare int stored in the duration field (create_empty)
BareInt(s) == [td |-> FALSE, sec |-> s]

Spectrum(duration, a0, a1, a2, counts) ==
    [duration |-> duration, a0 |-> a0, a1 |-> a1, a2 |-> a2, counts |-> counts]

\* SpectrumData.get_duration: spectrum.duration.total_seconds()
get_duration(spectrum) ==
    IF spectrum.duration.td THEN Ret(spectrum.duration.sec)
    ELSE Raise("AttributeError")

----------------------------------------------------------------------------
(* spectrum.py: calibration *)

\* channel_to_energy: a0 + a1*ch + a2*ch**2
channel_to_energy(spectrum, ch) ==
    spectrum.a0 + spectrum.a1 * ch + spectrum.a2 * ch * ch

\* int(x) of the float (root - a1) / q, root = NpSqrt(...):
\*   nan -> ValueError, +-inf -> OverflowError, otherwise truncation toward zero.
\* (root - a1) has floor root.fl - a1; when it is negative its magnitude has
\* floor a1 - ceil(root).
IntOfQuotient(root, a1, q) ==
    IF root = NaN THEN Raise("ValueError")
    ELSE LET cl == IF root.exact THEN root.fl ELSE root.fl + 1
             sgn == IF root.fl - a1 >= 0
                       THEN (IF root.fl = a1 /\ root.exact THEN 0 ELSE 1)
                       ELSE -1
         IN  IF q = 0
               THEN IF sgn = 0 THEN Raise("ValueError")       \* 0.0/0 = nan
                    ELSE Raise("OverflowError")               \* x/0 = +-inf
             ELSE IF sgn >= 0
               THEN Ret(Sign(q) * ((root.fl - a1) \div Abs(q)))
             ELSE Ret(-Sign(q) * ((a1 - cl) \div Abs(q)))

\* energy_to_channel with the silent clamps a checked precondition replaces: a
\* negative discriminant taken as zero, a linear calibration answered with 0
energy_to_channel_clamped(spectrum, e) ==
    LET c == spectrum.a0 - e
        disc == spectrum.a1 * spectrum.a1 - 4 * spectrum.a2 * c
    IN  IF spectrum.a2 = 0 THEN Ret(0)
        ELSE IntOfQuotient(NpSqrt(IF disc < 0 THEN 0 ELSE disc),
                           spectrum.a1, 2 * spectrum.a2)

\* energy_to_channel: int((np.sqrt(a1**2 - 4*a2*c) - a1) / (2*a2)), c = a0 - e
energy_to_channel(spectrum, e) ==
    LET c == spectrum.a0 - e
    IN  IntOfQuotient(NpSqrt(spectrum.a1 * spectrum.a1 - 4 * spectrum.a2 * c),
                      spectrum.a1, 2 * spectrum.a2)


----------------------------------------------------------------------------
(* spectrum.py: smoothing and normalization *)

\* scipy.signal.savgol_filter(data, window_length=window_size, polyorder=2),
\* default mode "interp": every output is the value of the least-squares parabola
\* through window_size consecutive samples.  With u = 2*j - (window_size-1) for
\* the j-th sample of the window, the polynomials 1, u, u^2 - MeanU2 are
\* orthogonal over the window, so the parabola at u is
\*     S0/window_size + u*S1/SumU2 + (u^2 - MeanU2)*S2/SumP2Sq
\* where Sk is the sum of the samples weighted by the k-th polynomial.
U(j) == 2 * j - (window_size - 1)
SumU2 == (window_size * (window_size * window_size - 1)) \div 3
MeanU2 == SumU2 \div window_size
P2(u) == u * u - MeanU2
RECURSIVE SumP2SqFrom(_)
SumP2SqFrom(j) ==
    IF j >= window_size THEN 0 ELSE P2(U(j)) * P2(U(j)) + SumP2SqFrom(j + 1)
SumP2Sq == SumP2SqFrom(0)
RECURSIVE GCD(_, _)
GCD(a, b) == IF b = 0 THEN a ELSE GCD(b, a % b)
\* common denominator of the three terms, and each term's factor
SavgolDen == (SumU2 * SumP2Sq) \div GCD(SumU2, SumP2Sq)
F0 == SavgolDen \div window_size
F1 == SavgolDen \div SumU2
F2 == SavgolDen \div SumP2Sq

Weight(k, j) == IF k = 0 THEN 1 ELSE IF k = 1 THEN U(j) ELSE P2(U(j))
\* sum over the window starting at data[ws] (1-based) of Weight(k, j) * sample j
RECURSIVE WSum(_, _, _, _)
WSum(data, ws, k, j) ==
    IF j >= window_size THEN 0
    ELSE Weight(k, j) * data[ws + j] + WSum(data, ws, k, j + 1)

\* the parabola fitted to data[ws .. ws+window_size-1], at u
SavgolAt(data, ws, u) ==
    Rat(F0 * WSum(data, ws, 0, 0) + F1 * u * WSum(data, ws, 1, 0)
          + F2 * P2(u) * WSum(data, ws, 2, 0),
        SavgolDen)

\* Output i (1-based) of n: the first and the last window_size \div 2 outputs are
\* read off the parabola through the first (last) window_size samples; an
\* interior output is the centre value (u = 0) of the window around it.
savgol_filter(data) ==
    LET n == Len(data)
        half == window_size \div 2
    IN  IF n < window_size THEN Raise("ValueError")
        ELSE Ret([i \in 1..n |->
                 IF i <= half THEN SavgolAt(data, 1, U(i - 1))
                 ELSE IF i > n - half
                   THEN SavgolAt(data, n - window_size + 1,
                                 U(i - (n - window_size + 1)))
                 ELSE SavgolAt(data, i - half + 1, 0)])

\* np.clip(data_out, a_min=0, a_max=None)
np_clip(arr) ==
    [i \in 1..Len(arr) |-> IF arr[i].n < 0 THEN Rat(0, arr[i].d) ELSE arr[i]]

\* x < y for finite floats
FLess(x, y) == IF x.d = y.d THEN x.n < y.n ELSE x.n * y.d < y.n * x.d

\* the larger of two finite floats
FMax(x, y) == IF FLess(x, y) THEN y ELSE x

\* ndarray.max() of a non-empty array of finite floats (arr[lo..hi], by halves)
RECURSIVE NpMaxOf(_, _, _)
NpMaxOf(arr, lo, hi) ==
    IF lo = hi THEN arr[lo]
    ELSE FMax(NpMaxOf(arr, lo, (lo + hi) \div 2),
              NpMaxOf(arr, (lo + hi) \div 2 + 1, hi))
np_max(arr) == NpMaxOf(arr, 1, Len(arr))

\* x / y for finite floats under numpy: x/0 is nan (x = 0) or +-inf, with a
\* RuntimeWarning and no exception.
FDiv(x, y) ==
    IF y.n = 0
      THEN IF x.n = 0 THEN NaN ELSE IF x.n > 0 THEN Inf ELSE NegInf
    ELSE IF x.d = y.d THEN Rat(Sign(y.n) * x.n, Abs(y.n))
    ELSE Rat(Sign(y.n) * x.n * y.d, x.d * Abs(y.n))

\* A call's effect: what it returns or raises (ret), and the value its argument
\* object holds once the call is over (arg); Python passes the list and the
\* dataclass by reference.

\* np.clip(...) of what savgol_filter returned; its exception otherwise
ClipResult(data_out) ==
    IF data_out.ok THEN Ret(np_clip(data_out.val)) ELSE data_out

\* _smooth_data
_smooth_data(data) ==
    [ret |-> ClipResult(savgol_filter(data)), arg |-> data]

\* counts / val_norm, element by element
DivideAll(counts, val_norm) ==
    [i \in 1..Len(counts) |-> FDiv(counts[i], val_norm)]

\* _normalize writing the normalized counts into its argument
NormalizeInPlace(spectrum, smoothed) ==
    IF ~smoothed.ret.ok THEN [ret |-> smoothed.ret, arg |-> spectrum]
    ELSE [ret |-> Ret([spectrum EXCEPT
                         !.counts = DivideAll(smoothed.ret.val, np_max(smoothed.ret.val))]),
          arg |-> [spectrum EXCEPT
                     !.counts = DivideAll(smoothed.ret.val, np_max(smoothed.ret.val))]]

\* _normalize, after its call of _smooth_data: val_norm = counts.max(), and a
\* new Spectrum with the argument's duration and coefficients
NormalizeWith(spectrum, smoothed) ==
    [ret |-> IF ~smoothed.ret.ok THEN smoothed.ret
             ELSE Ret(Spectrum(spectrum.duration, spectrum.a0, spectrum.a1,
                               spectrum.a2,
                               DivideAll(smoothed.ret.val, np_max(smoothed.ret.val)))),
     arg |-> [spectrum EXCEPT !.counts = smoothed.arg]]

\* _normalize
_normalize(spectrum) == NormalizeWith(spectrum, _smooth_data(spectrum.counts))

----------------------------------------------------------------------------
(* spectrum.py: feature extraction *)

\* arr[ch] on a list or ndarray with a Python int: a negative index counts from
\* the end, anything outside [-len, len-1] raises IndexError.
PyIndex(arr, ch) ==
    LET n == Len(arr)
    IN  IF 0 <= ch /\ ch < n THEN Ret(arr[ch + 1])
        ELSE IF -n <= ch /\ ch < 0 THEN Ret(arr[n + ch + 1])
        ELSE Raise("IndexError")

\* the energies taken in the reverse of the table's order
EnergiesReversed(table) == [i \in 1..Len(table) |-> table[Len(table) + 1 - i][2]]

\* [energy for _, energy in isotopes]
Energies(table) == [i \in 1..Len(table) |-> table[i][2]]

\* [energy_to_channel(spectrum, energy) for energy in energies], from the i-th
\* on: the first call that raises ends the comprehension.
RECURSIVE ChannelsFrom(_, _, _)
ChannelsFrom(spectrum, energies, i) ==
    IF i > Len(energies) THEN Ret(<<>>)
    ELSE LET ch == energy_to_channel(spectrum, energies[i])
             rest == ChannelsFrom(spectrum, energies, i + 1)
         IN  IF ~ch.ok THEN ch
             ELSE IF ~rest.ok THEN rest
             ELSE Ret(<<ch.val>> \o rest.val)

\* [sp_norm.counts[ch] for ch in channels], from the i-th on
RECURSIVE SamplesFrom(_, _, _)
SamplesFrom(counts, channels, i) ==
    IF i > Len(channels) THEN Ret(<<>>)
    ELSE LET v == PyIndex(counts, channels[i])
             rest == SamplesFrom(counts, channels, i + 1)
         IN  IF ~v.ok THEN v
             ELSE IF ~rest.ok THEN rest
             ELSE Ret(<<v.val>> \o rest.val)

\* convert_to_features, after its call of _normalize
FeaturesWith(sp_norm, table, channels) ==
    [ret |-> IF ~sp_norm.ret.ok THEN sp_norm.ret
             ELSE IF ~channels.ok THEN channels
             ELSE SamplesFrom(sp_norm.ret.val.counts, channels.val, 1),
     spectrum |-> sp_norm.arg,
     isotopes |-> table]

\* convert_to_features: ret, and the argument objects after the call
convert_to_features(spectrum, table) ==
    FeaturesWith(_normalize(spectrum), table,
                 ChannelsFrom(spectrum, Energies(table), 1))

----------------------------------------------------------------------------
(* Inputs: what an uploaded file, a JSON file and the model bundle may hold. *)

NoSpectrum == [none |-> TRUE]
\* a local not assigned yet, a call not ended yet
Unset == [unset |-> TRUE]
NoCall == [fn |-> "none"]

Coef0 == {0, 1}
Coef1 == {-1, 0, 1}
Coef2 == {-1, 0, 1}
Durations == {MIN_SPECTRUM_DURATION_SEC - 1, MIN_SPECTRUM_DURATION_SEC}
TableEnergies == {-5, 2, 6, 500}
CallChannels == {-2, 0, 1}

Flat(n, b) == [i \in 1..n |-> b]
Peak(n, b, p, h) == [i \in 1..n |-> IF i = p THEN h ELSE b]
LongLengths == window_size..(window_size + ExtraLen)
CountsArrays ==
    {Flat(n, 0) : n \in {0, window_size - 1, window_size}}
      \cup {Peak(n, 0, window_size \div 2, MaxCount) : n \in LongLengths}
      \cup {Peak(window_size, 1, window_size, MaxCount)}
\* what the JSON files hold
FileCountsArrays == {Flat(window_size + 1, 1), Peak(window_size, 0, 1, MaxCount)}

IsotopeNames == <<"Ra-226", "Th-232", "U-238", "Am-241">>
\* isotopes.json: a list of [isotope_name, energy_keV]
Tables ==
    UNION {{[i \in 1..k |-> <<IsotopeNames[i], f[i]>>] : f \in [1..k -> TableEnergies]}
             : k \in 1..MaxIsotopes}
\* LabelEncoder.npy
LabelClasses == <<"Ra-226", "Th-232">>

----------------------------------------------------------------------------
(* st-app.py main starts with no spectrum and no model. *)

NotLoaded == "not loaded"

Init ==
    /\ sp = NoSpectrum
    /\ origin = "none"
    /\ isotopes = <<>>
    /\ labels = <<>>
    /\ classifier = NotLoaded
    /\ pc = "Idle"
    /\ features = Unset
    /\ preds = Unset
    /\ outcome = Unset
    /\ trace = <<>>
    /\ call = NoCall

----------------------------------------------------------------------------
(* spectrum.py: constructors *)

\* create_empty
create_empty == Spectrum(BareInt(0), 0, 0, 0, Flat(EmptyChannels, 0))

\* load_from_xml: float() of the three coefficients, int() of MeasurementTime
\* and of every DataPoint; nothing else is checked.
load_from_xml(a0, a1, a2, duration, data) ==
    Spectrum(Timedelta(duration), a0, a1, a2, data)

\* load_from_file: the JSON fields as they are
load_from_file(a0, a1, a2, duration, data) ==
    Spectrum(Timedelta(duration), a0, a1, a2, data)

Loaded == <<isotopes, labels, classifier>>
PredictLocals == <<pc, features, preds, outcome, trace>>

CreateEmpty ==
    /\ sp = NoSpectrum
    /\ sp' = create_empty
    /\ origin' = "create_empty"
    /\ UNCHANGED <<Loaded, PredictLocals, call>>

LoadFromXml ==
    /\ sp = NoSpectrum
    /\ \E a0 \in Coef0, a1 \in Coef1, a2 \in Coef2, d \in Durations, data \in CountsArrays :
          sp' = load_from_xml(a0, a1, a2, d, data)
    /\ origin' = "load_from_xml"
    /\ UNCHANGED <<Loaded, PredictLocals, call>>

LoadFromFile ==
    /\ sp = NoSpectrum
    /\ \E a0 \in Coef0, a1 \in Coef1, a2 \in Coef2, data \in FileCountsArrays :
          sp' = load_from_file(a0, a1, a2, MIN_SPECTRUM_DURATION_SEC, data)
    /\ origin' = "load_from_file"
    /\ UNCHANGED <<Loaded, PredictLocals, call>>

----------------------------------------------------------------------------
(* ml_models.py *)

\* __init__: st-app.py main constructs the model once get_spectrum
\* (load_from_xml) has returned a spectrum.
ModelInit ==
    /\ origin = "load_from_xml"
    /\ classifier = NotLoaded
    /\ pc = "Idle"
    /\ call = NoCall
    /\ classifier' = "XGBClassifier.json"
    /\ isotopes' \in Tables
    /\ labels' = LabelClasses
    /\ UNCHANGED <<sp, origin, PredictLocals, call>>

(* predict, statement by statement; st-app.py main calls it on that spectrum. *)

StartPredict ==
    /\ pc = "Idle"
    /\ classifier # NotLoaded
    /\ pc' = "Received"
    /\ call' = NoCall
    /\ UNCHANGED <<sp, origin, Loaded, features, preds, outcome, trace>>

\* the duration check with the threshold one second short
CheckDurationOffByOne ==
    /\ pc = "Received"
    /\ \E d \in {get_duration(sp)} :
          /\ trace' = Append(trace, "get_duration")
          /\ IF ~d.ok
               THEN pc' = "Raised" /\ outcome' = d
             ELSE IF d.val < MIN_SPECTRUM_DURATION_SEC - 1
               THEN pc' = "InsufficientDuration" /\ outcome' = Ret("Not Enough Data")
             ELSE pc' = "DurationChecked" /\ outcome' = outcome
    /\ UNCHANGED <<sp, origin, Loaded, features, preds, call>>

\* if spectrum.get_duration() < self.MIN_SPECTRUM_DURATION_SEC: return "Not Enough Data"
CheckDuration ==
    /\ pc = "Received"
    /\ \E d \in {get_duration(sp)} :
          /\ trace' = Append(trace, "get_duration")
          /\ IF ~d.ok
               THEN pc' = "Raised" /\ outcome' = d
             ELSE IF d.val < MIN_SPECTRUM_DURATION_SEC
               THEN pc' = "InsufficientDuration" /\ outcome' = Ret("Not Enough Data")
             ELSE pc' = "DurationChecked" /\ outcome' = outcome
    /\ UNCHANGED <<sp, origin, Loaded, features, preds, call>>

\* feature extraction tried again after a failure
ExtractFeaturesRetry ==
    /\ pc = "DurationChecked"
    /\ Len(trace) < 3
    /\ \E r \in {convert_to_features(sp, isotopes)} :
          /\ trace' = Append(trace, "convert_to_features")
          /\ sp' = r.spectrum
          /\ isotopes' = r.isotopes
          /\ IF r.ret.ok
               THEN pc' = "FeaturesExtracted" /\ features' = r.ret /\ outcome' = outcome
             ELSE pc' = "DurationChecked" /\ features' = features /\ outcome' = outcome
    /\ UNCHANGED <<origin, labels, classifier, preds, call>>

\* features = SpectrumPreprocessing.convert_to_features(spectrum.get_data(), self._isotopes)
\* No try/except: what convert_to_features raises leaves predict as it is.
ExtractFeatures ==
    /\ pc = "DurationChecked"
    /\ \E r \in {convert_to_features(sp, isotopes)} :
          /\ trace' = Append(trace, "convert_to_features")
          /\ sp' = r.spectrum
          /\ isotopes' = r.isotopes
          /\ IF r.ret.ok
               THEN pc' = "FeaturesExtracted" /\ features' = r.ret /\ outcome' = outcome
             ELSE pc' = "ExtractionFailed" /\ features' = features /\ outcome' = r.ret
    /\ UNCHANGED <<origin, labels, classifier, preds, call>>

\* preds = self._classifier.predict([features]); the pretrained XGBClassifier is
\* opaque: it answers with some class of the encoder (NaN features are missing
\* values to it).  preds = self._labels_encoder.inverse_transform(preds);
\* return preds[0]
Classify ==
    /\ pc = "FeaturesExtracted"
    /\ \E k \in 1..Len(labels) :
          /\ preds' = Ret(<<labels[k]>>)
          /\ outcome' = Ret(labels[k])
    /\ trace' = trace \o <<"classifier.predict", "inverse_transform">>
    /\ pc' = "Classified"
    /\ UNCHANGED <<sp, origin, Loaded, features, call>>

----------------------------------------------------------------------------
(* A direct call of a SpectrumPreprocessing function on the loaded spectrum,  *)
(* one per run: of a function that takes no isotope table before the model   *)
(* is constructed, of convert_to_features after.                             *)

CanCall == pc = "Idle" /\ sp # NoSpectrum /\ call = NoCall
NoModelYet == classifier = NotLoaded

CallEnergyToChannel ==
    /\ CanCall
    /\ NoModelYet
    /\ \E e \in TableEnergies :
          call' = [fn |-> "energy_to_channel", arg |-> e, ret |-> energy_to_channel(sp, e)]
    /\ UNCHANGED <<sp, origin, Loaded, PredictLocals>>

CallChannelToEnergy ==
    /\ CanCall
    /\ NoModelYet
    /\ \E ch \in CallChannels :
          call' = [fn |-> "channel_to_energy", arg |-> ch,
                   ret |-> Ret(channel_to_energy(sp, ch))]
    /\ UNCHANGED <<sp, origin, Loaded, PredictLocals>>

CallSmoothData ==
    /\ CanCall
    /\ NoModelYet
    /\ \E r \in {_smooth_data(sp.counts)} :
          /\ call' = [fn |-> "_smooth_data", arg |-> sp.counts, ret |-> r.ret]
          /\ sp' = [sp EXCEPT !.counts = r.arg]
    /\ UNCHANGED <<origin, Loaded, PredictLocals>>

CallNormalize ==
    /\ CanCall
    /\ NoModelYet
    /\ \E r \in {_normalize(sp)} :
          /\ call' = [fn |-> "_normalize", arg |-> sp, ret |-> r.ret]
          /\ sp' = r.arg
    /\ UNCHANGED <<origin, Loaded, PredictLocals>>

CallConvertToFeatures ==
    /\ CanCall
    /\ classifier # NotLoaded
    /\ \E r \in {convert_to_features(sp, isotopes)} :
          /\ call' = [fn |-> "convert_to_features", arg |-> sp, ret |-> r.ret]
          /\ sp' = r.spectrum
          /\ isotopes' = r.isotopes
    /\ UNCHANGED <<origin, labels, classifier, PredictLocals>>

Next ==
    \/ CreateEmpty
    \/ LoadFromXml
    \/ LoadFromFile
    \/ ModelInit
    \/ StartPredict
    \/ CheckDuration
    \/ ExtractFeatures
    \/ Classify
    \/ CallEnergyToChannel
    \/ CallChannelToEnergy
    \/ CallSmoothData
    \/ CallNormalize
    \/ CallConvertToFeatures

Spec == Init /\ [][Next]_vars

----------------------------------------------------------------------------
(* Properties *)

Terminal == {"InsufficientDuration", "Classified", "ExtractionFailed"}
InPredict == pc \notin {"Idle", "Received"}
PredictEnded == outcome # Unset
AllZero(counts) == \A i \in 1..Len(counts) : counts[i] = 0

C2_FailureIsReturned ==
    pc = "ExtractionFailed" => (outcome.ok /\ outcome.val = "PredictionFailed")

\* table entry i resolves, under the spectrum's calibration, to a channel outside [0, len(counts)-1]
OutOfRange(spectrum, table, i) ==
    LET ch == energy_to_channel(spectrum, table[i][2])
    IN  ch.ok /\ (ch.val < 0 \/ ch.val > Len(spectrum.counts) - 1)

\* C3: a predict call on a spectrum of sufficient duration, with a table entry
\* whose channel is out of range, ends by returning PredictionFailed: it
\* neither raises nor returns a label.
C3_OutOfRangeFails ==
    (/\ PredictEnded
     /\ pc # "InsufficientDuration"
     /\ \E i \in 1..Len(isotopes) : OutOfRange(sp, isotopes, i))
        => (outcome.ok /\ outcome.val = "PredictionFailed")

\* sqrt(disc) >= k and sqrt(disc) <= k, for disc >= 0
RootGe(disc, k) == k <= 0 \/ k * k <= disc
RootLe(disc, k) == k >= 0 /\ k * k >= disc
\* x >= m and x <= m for x = (sqrt(disc) - a1) / q, q # 0
QuotGe(disc, a1, q, m) ==
    IF q > 0 THEN RootGe(disc, a1 + q * m) ELSE RootLe(disc, a1 + q * m)
QuotLe(disc, a1, q, m) ==
    IF q > 0 THEN RootLe(disc, a1 + q * m) ELSE RootGe(disc, a1 + q * m)
\* ch is x truncated toward zero
IsTruncation(disc, a1, q, ch) ==
    \/ ch >= 0 /\ QuotGe(disc, a1, q, ch) /\ ~QuotGe(disc, a1, q, ch + 1)
    \/ ch <= 0 /\ QuotLe(disc, a1, q, ch) /\ ~QuotLe(disc, a1, q, ch - 1)

Discriminant(spectrum, e) ==
    spectrum.a1 * spectrum.a1 - 4 * spectrum.a2 * (spectrum.a0 - e)

\* C4: energy_to_channel raises, returning no channel, when the discriminant
\* is negative or a2 = 0; otherwise it returns
\* (sqrt(a1^2 - 4*a2*(a0 - e)) - a1) / (2*a2) truncated toward zero.
C4_EnergyToChannel ==
    call.fn = "energy_to_channel" =>
        IF Discriminant(sp, call.arg) < 0 \/ sp.a2 = 0
          THEN ~call.ret.ok
          ELSE /\ call.ret.ok
               /\ IsTruncation(Discriminant(sp, call.arg), sp.a1, 2 * sp.a2, call.ret.val)

\* a call with a quadratic calibration and a negative discriminant raised
C4_Witness ==
    /\ call.fn = "energy_to_channel"
    /\ sp.a2 # 0
    /\ Discriminant(sp, call.arg) < 0
    /\ ~call.ret.ok

\* C5: _normalize never returns a Spectrum holding a non-finite count (it
\* raises when the smoothed maximum is zero).
C5_NormalizeFinite ==
    (call.fn = "_normalize" /\ call.ret.ok)
        => \A i \in 1..Len(call.ret.val.counts) : IsFinite(call.ret.val.counts[i])

\* C6: when convert_to_features succeeds its result has one element per table
\* entry, the i-th being the normalized count at the channel of the i-th
\* entry's energy.
FeaturesMatchTable(result, spectrum, table) ==
    /\ Len(result) = Len(table)
    /\ \A i \in 1..Len(table) :
          /\ energy_to_channel(spectrum, table[i][2]).ok
          /\ result[i] = PyIndex(_normalize(spectrum).ret.val.counts,
                                 energy_to_channel(spectrum, table[i][2]).val).val

C6_FeaturesFollowTable ==
    /\ (call.fn = "convert_to_features" /\ call.ret.ok)
          => FeaturesMatchTable(call.ret.val, call.arg, isotopes)
    /\ features # Unset => FeaturesMatchTable(features.val, sp, isotopes)

\* a two-entry table whose entries resolve to different counts
C6_Witness ==
    /\ call.fn = "convert_to_features"
    /\ call.ret.ok
    /\ Len(call.ret.val) = 2
    /\ call.ret.val[1] # call.ret.val[2]

Between(x, a, b) == (a <= x /\ x <= b) \/ (b <= x /\ x <= a)

\* C7: for an invertible calibration (a1 # 0 or a2 # 0) and an energy e between
\* channel_to_energy(0) and channel_to_energy(len(counts)-1), energy_to_channel
\* returns a channel ch with
\* |channel_to_energy(ch) - e| <= channel_to_energy(ch+1) - channel_to_energy(ch).
C7_RoundTrip ==
    (/\ call.fn = "energy_to_channel"
     /\ (sp.a1 # 0 \/ sp.a2 # 0)
     /\ Len(sp.counts) >= 1
     /\ Between(call.arg, channel_to_energy(sp, 0),
                channel_to_energy(sp, Len(sp.counts) - 1)))
        => /\ call.ret.ok
           /\ Abs(channel_to_energy(sp, call.ret.val) - call.arg)
                <= channel_to_energy(sp, call.ret.val + 1)
                     - channel_to_energy(sp, call.ret.val)

\* C8: every constructed Spectrum has 1024 counts and a1 # 0 or a2 # 0.
C8_SpectrumInvariant ==
    sp # NoSpectrum => (Len(sp.counts) = 1024 /\ (sp.a1 # 0 \/ sp.a2 # 0))

PredictOrder ==
    <<"get_duration", "convert_to_features", "classifier.predict", "inverse_transform">>

StepMarks == <<origin, classifier, pc, call.fn>>

\* C10: no call changes the loaded Spectrum or the loaded model, and the
\* Spectrum _normalize returns carries its argument's duration and coefficients.
\* (The Spectrum before and after is compared in printed form: an array of
\* floats and an array of ints are different values, not incomparable ones.
\* Every step of Next changes one of the components of StepMarks.)
C10_InputsUnchanged ==
    [][/\ sp # NoSpectrum => ToString(sp') = ToString(sp)
       /\ classifier # NotLoaded => UNCHANGED <<isotopes, labels, classifier>>
       /\ (call'.fn = "_normalize" /\ call'.ret.ok)
             => /\ call'.ret.val.duration = sp.duration
                /\ call'.ret.val.a0 = sp.a0
                /\ call'.ret.val.a1 = sp.a1
                /\ call'.ret.val.a2 = sp.a2]_StepMarks

\* _normalize returned a Spectrum with other counts than its argument's
C10_Witness ==
    /\ call.fn = "_normalize"
    /\ call.ret.ok
    /\ sp = call.arg
    /\ \E i \in 1..Len(sp.counts) :
          /\ IsFinite(call.ret.val.counts[i])
          /\ call.ret.val.counts[i].n # sp.counts[i] * call.ret.val.counts[i].d

============================================================================
